---- MODULE Spec2Model ----
(***************************************************************************)
(* RedisPipelineBootstrap (pipeline/RedisPipelineBootstrap.h): the          *)
(* lifecycle of the optional components, the handler builder, the lookups   *)
(* and the one-off (migration) gate.                                        *)
(*                                                                          *)
(* The control thread runs one member function at a time.  A member         *)
(* function that calls collaborators is entered by an action that loads     *)
(* `todo` with the calls of its body, in the order of the code; the calls   *)
(* are then made one at a time, and nothing else runs on the control        *)
(* thread until `todo` is empty.  `calls` is the record of the calls made  *)
(* on collaborators, in order.                                              *)
(***************************************************************************)
EXTENDS Integers, Sequences, FiniteSets, TLC

\* ---------------------------------------------------------------- bounds
MaxConsumers == 2
MaxTaskQueues == 1
MaxTopics == 1
MaxColumnFamilies == 1
MaxConnections == 2
MaxTargets == 2
MaxTicks == 4
MaxShardCount == 11
MaxStartShardIndex == 1
MaxShardIndexIncrement == 2
MaxResolves == 2
MaxHandles == 3

\* ------------------------------------------------------------- constants
\* A null pointer / empty shared_ptr.
Null == 0
\* An indeterminate pointer value (a member the constructor leaves unset).
Garbage == -1

VARIABLES
    phase,                   \* position of the service's main function
    aborted,                 \* "no", or why the process has terminated
    todo,                    \* calls left in the member function being run
    calls,                   \* calls made on collaborators so far, in order
    ret,                     \* the last value returned by an accessor
    singletonHandler_,       \* DefaultRedisHandlerBuilder::singletonHandler_
    handler_,                \* DefaultRedisHandlerBuilder::handler_
    factoryCalls,            \* invocations of redisHandlerFactory_ so far
    vended,                  \* the `handler` local of each newHandler call
    opened,                  \* receiver of connectionOpened in each call (Null: none)
    returned,                \* the handlers newHandler has returned, in order
    rocksDb_,
    columnFamilyMap_,
    databaseManager_,
    scheduledTaskQueueMap_,
    kafkaConsumers_,
    kafkaProducers_,
    embeddedHttpServer_,
    server_,
    persisted,               \* value under kVersionTimestampKey, or Null
    nowMs,                   \* wall clock
    gate,                    \* the last decision of canApplyOneOffFlags
    persistLog,              \* the timestamps persistVersionTimestamp has written
    groupName,               \* name of the column family group being resolved
    groupConfig,             \* its RocksDbColumnFamilyGroupConfig
    visits,                  \* per resolution, the names the callback received, in order
    kafkaConsumerHelper_,
    metricsRegistry_

builderVars == <<singletonHandler_, handler_, factoryCalls, vended, opened, returned>>
componentVars == <<rocksDb_, columnFamilyMap_, databaseManager_, scheduledTaskQueueMap_,
                   kafkaConsumers_, kafkaProducers_, embeddedHttpServer_>>
gateVars == <<persisted, nowMs, gate, persistLog>>
shardVars == <<groupName, groupConfig, visits>>
helperVars == <<kafkaConsumerHelper_, metricsRegistry_>>
vars == <<phase, aborted, todo, calls, ret, builderVars, componentVars, server_, gateVars, shardVars, helperVars>>

\* ------------------------------------------------------------- helpers
Call(op, cls, id) == [op |-> op, cls |-> cls, id |-> id]

Running == aborted = "no"
ControlIdle == Running /\ todo = <<>>

NoRet == [op |-> "none", arg |-> Null, result |-> Null]
NoGate == [target |-> Null, persisted |-> Null, now |-> Null, result |-> FALSE]

\* RocksDbColumnFamilyGroupConfig(int _startShardIndex, int _localVirtualShardCount,
\*                                int _shardIndexIncrement)
RocksDbColumnFamilyGroupConfig(_startShardIndex, _localVirtualShardCount, _shardIndexIncrement) ==
    [startShardIndex |-> _startShardIndex,
     localVirtualShardCount |-> _localVirtualShardCount,
     shardIndexIncrement |-> _shardIndexIncrement]

\* No group is being resolved.
NoGroup ==
    /\ groupName = <<>>
    /\ groupConfig = RocksDbColumnFamilyGroupConfig(0, 0, 1)
    /\ visits = <<>>

\* ---------------------------------------------------------------- Init
\* explicit RedisPipelineBootstrap(Config config) : config_(...), rocksDb_(nullptr) {}
\* server_ is not in the initialiser list: its value is indeterminate.
Init ==
    /\ phase = "constructed"
    /\ aborted = "no"
    /\ todo = <<>>
    /\ calls = <<>>
    /\ ret = NoRet
    /\ singletonHandler_ \in BOOLEAN
    /\ handler_ = Null
    /\ factoryCalls = 0
    /\ vended = <<>>
    /\ opened = <<>>
    /\ returned = <<>>
    /\ rocksDb_ = Null
    /\ columnFamilyMap_ = <<>>
    /\ databaseManager_ = Null
    /\ scheduledTaskQueueMap_ = <<>>
    /\ kafkaConsumers_ = <<>>
    /\ kafkaProducers_ = <<>>
    /\ embeddedHttpServer_ = Null
    /\ server_ \in {Null, Garbage}
    /\ persisted = Null
    /\ nowMs = 0
    /\ gate = NoGate
    /\ persistLog = {}
    /\ NoGroup
    /\ kafkaConsumerHelper_ = Null
    /\ metricsRegistry_ = Null

\* ------------------------------------------------- the main function's order
\* The service's main function calls the public member functions in this order
\* (create/initialize*, handler builder, startOptionalComponents, launchServer,
\* stopServer, stopOptionalComponents, stopRocksDb), each after the previous
\* one has returned.
MainAt(p) == ControlIdle /\ phase = p

\* create(config) followed by the initialize* member functions: the optional
\* components the flags and the Config ask for are constructed, the engine is
\* opened and one handle per column family is stored.
InitializeWith(nCf, hasDbm, hasHttp, nTq, nCons, producers) ==
    /\ MainAt("constructed")
    /\ rocksDb_' = "open"
    /\ columnFamilyMap_' = [name \in 1..nCf |-> name]
    /\ databaseManager_' = IF hasDbm THEN 1 ELSE Null
    /\ scheduledTaskQueueMap_' = [name \in 1..nTq |-> name]
    /\ kafkaConsumers_' = [i \in 1..nCons |-> [life |-> "constructed", loop |-> "idle"]]
    /\ kafkaProducers_' = producers
    /\ embeddedHttpServer_' = IF hasHttp THEN 1 ELSE Null
    /\ phase' = "initialized"
    /\ UNCHANGED <<aborted, todo, calls, ret, builderVars, server_, gateVars, shardVars, helperVars>>

\* A service with any of the optional components.
Initialize ==
    /\ MainAt("constructed")
    /\ \E nCf \in 1..MaxColumnFamilies, hasDbm \in BOOLEAN, hasHttp \in BOOLEAN,
          nTq \in 0..MaxTaskQueues, nCons \in 0..MaxConsumers, nTopics \in 0..MaxTopics :
         \E nullTopics \in SUBSET (1..nTopics) :
           InitializeWith(nCf, hasDbm, hasHttp, nTq, nCons,
                          [topic \in 1..nTopics |-> IF topic \in nullTopics THEN Null ELSE topic])

\* A service with no optional component: a Config that holds the required
\* redisHandlerFactory alone.
InitializeBare == InitializeWith(1, FALSE, FALSE, 0, 0, <<>>)

\* --------------------------------------------- DefaultRedisHandlerBuilder
\* What a RedisHandlerFactory can hand back on its n-th invocation: a new
\* handler (identified by n) or a null pointer.
FactoryResults(n) == {Null, n}

\* Variant: the constructor builds a handler whatever the strategy.
ConstructorInvokesFactory_Always(singleton) == TRUE

\* if (singletonHandler) { handler_ = redisHandlerFactory(bootstrap); ... }
ConstructorInvokesFactory(singleton) == singleton

\* DefaultRedisHandlerBuilder(redisHandlerFactory, singletonHandler, bootstrap)
ConstructBuilder ==
    /\ MainAt("initialized")
    /\ phase' = "assembled"
    /\ IF ConstructorInvokesFactory(singletonHandler_)
       THEN \E h \in FactoryResults(factoryCalls + 1) :
              /\ factoryCalls' = factoryCalls + 1
              /\ handler_' = h
              \* CHECK_NOTNULL(handler_.get())
              /\ aborted' = IF h = Null THEN "check_notnull" ELSE aborted
       ELSE UNCHANGED <<factoryCalls, handler_, aborted>>
    /\ UNCHANGED <<todo, calls, ret, singletonHandler_, vended, opened, returned,
                   componentVars, server_, gateVars, shardVars, helperVars>>

\* Variant: newHandler builds a handler whatever the strategy.
NewHandlerInvokesFactory_Always(singleton) == TRUE

\* singletonHandler_ ? handler_ : redisHandlerFactory_(bootstrap_)
NewHandlerInvokesFactory(singleton) == ~singleton

\* handler_->connectionOpened(): the receiver is the member handler_, not the
\* local handler.
ConnectionOpenedReceiver(handler, member) == member

\* What a member call through a null shared_ptr can do: end the process, or
\* go on without any handler having been notified.
NullCallOutcomes == {"crash", "no_effect"}

\* std::shared_ptr<RedisHandler> newHandler() override
NewHandler ==
    /\ Running
    /\ phase = "listening"
    /\ Len(vended) < MaxConnections
    /\ \E fresh \in FactoryResults(factoryCalls + 1), outcome \in NullCallOutcomes :
        LET invoke == NewHandlerInvokesFactory(singletonHandler_)
            handler == IF invoke THEN fresh ELSE handler_
            receiver == ConnectionOpenedReceiver(handler, handler_)
        IN  /\ factoryCalls' = IF invoke THEN factoryCalls + 1 ELSE factoryCalls
            /\ vended' = Append(vended, handler)
            /\ opened' = Append(opened, receiver)
            /\ IF receiver # Null
               THEN /\ returned' = Append(returned, handler)
                    /\ UNCHANGED aborted
               ELSE IF outcome = "crash"
               THEN /\ aborted' = "null_dereference"
                    /\ UNCHANGED returned
               ELSE /\ returned' = Append(returned, handler)
                    /\ UNCHANGED aborted
    /\ UNCHANGED <<phase, todo, calls, ret, singletonHandler_, handler_,
                   componentVars, server_, gateVars, shardVars, helperVars>>

\* ------------------------------------------------ startOptionalComponents
\* Variant: each consumer is started right after its own verification.
startOptionalComponentsCalls_InitStartEach ==
    (IF databaseManager_ # Null
        THEN <<Call("start", "databaseManager", databaseManager_)>> ELSE <<>>)
    \o [i \in 1..Len(scheduledTaskQueueMap_) |->
            Call("start", "taskQueue", scheduledTaskQueueMap_[i])]
    \o [k \in 1..(2 * Len(kafkaConsumers_)) |->
            IF k % 2 = 1 THEN Call("init", "consumer", (k + 1) \div 2)
                         ELSE Call("start", "consumer", k \div 2)]
    \o (IF embeddedHttpServer_ # Null
        THEN <<Call("start", "httpServer", embeddedHttpServer_)>> ELSE <<>>)

\* Variant: the endpoint is started before the consumers are verified.
startOptionalComponentsCalls_EndpointFirst ==
    (IF embeddedHttpServer_ # Null
        THEN <<Call("start", "httpServer", embeddedHttpServer_)>> ELSE <<>>)
    \o (IF databaseManager_ # Null
        THEN <<Call("start", "databaseManager", databaseManager_)>> ELSE <<>>)
    \o [i \in 1..Len(scheduledTaskQueueMap_) |->
            Call("start", "taskQueue", scheduledTaskQueueMap_[i])]
    \o [i \in 1..Len(kafkaConsumers_) |-> Call("init", "consumer", i)]
    \o [i \in 1..Len(kafkaConsumers_) |-> Call("start", "consumer", i)]

\* Variant: the task queues are started before the storage manager.
startOptionalComponentsCalls_QueuesFirst ==
    [i \in 1..Len(scheduledTaskQueueMap_) |->
            Call("start", "taskQueue", scheduledTaskQueueMap_[i])]
    \o (IF databaseManager_ # Null
        THEN <<Call("start", "databaseManager", databaseManager_)>> ELSE <<>>)
    \o [i \in 1..Len(kafkaConsumers_) |-> Call("init", "consumer", i)]
    \o [i \in 1..Len(kafkaConsumers_) |-> Call("start", "consumer", i)]
    \o (IF embeddedHttpServer_ # Null
        THEN <<Call("start", "httpServer", embeddedHttpServer_)>> ELSE <<>>)

\* The calls of startOptionalComponents() in the order of its body.
startOptionalComponentsCalls ==
    (IF databaseManager_ # Null
        THEN <<Call("start", "databaseManager", databaseManager_)>> ELSE <<>>)
    \o [i \in 1..Len(scheduledTaskQueueMap_) |->
            Call("start", "taskQueue", scheduledTaskQueueMap_[i])]
    \o [i \in 1..Len(kafkaConsumers_) |-> Call("init", "consumer", i)]
    \o [i \in 1..Len(kafkaConsumers_) |-> Call("start", "consumer", i)]
    \o (IF embeddedHttpServer_ # Null
        THEN <<Call("start", "httpServer", embeddedHttpServer_)>> ELSE <<>>)

\* void startOptionalComponents()
StartOptionalComponents ==
    /\ MainAt("assembled")
    /\ phase' = "started"
    /\ todo' = startOptionalComponentsCalls
    /\ UNCHANGED <<aborted, calls, ret, builderVars, componentVars, server_, gateVars, shardVars, helperVars>>

\* ------------------------------------------------- stopOptionalComponents
\* Variant: the producers are destroyed before the consumers are stopped.
stopOptionalComponentsCalls_ProducersFirst ==
    (IF embeddedHttpServer_ # Null
        THEN <<Call("destroy", "httpServer", embeddedHttpServer_)>> ELSE <<>>)
    \o SelectSeq([i \in 1..Len(kafkaProducers_) |->
                    Call("destroy", "producer", kafkaProducers_[i])],
                 LAMBDA c : c.id # Null)
    \o [i \in 1..Len(kafkaConsumers_) |-> Call("stop", "consumer", i)]
    \o [i \in 1..Len(kafkaConsumers_) |-> Call("destroy", "consumer", i)]
    \o [i \in 1..Len(scheduledTaskQueueMap_) |->
            Call("destroy", "taskQueue", scheduledTaskQueueMap_[i])]
    \o (IF databaseManager_ # Null
        THEN <<Call("destroy", "databaseManager", databaseManager_)>> ELSE <<>>)

\* Variant: one loop that stops and destroys each consumer in turn.
stopOptionalComponentsCalls_StopDestroyEach ==
    (IF embeddedHttpServer_ # Null
        THEN <<Call("destroy", "httpServer", embeddedHttpServer_)>> ELSE <<>>)
    \o [k \in 1..(2 * Len(kafkaConsumers_)) |->
            IF k % 2 = 1 THEN Call("stop", "consumer", (k + 1) \div 2)
                         ELSE Call("destroy", "consumer", k \div 2)]
    \o [i \in 1..Len(scheduledTaskQueueMap_) |->
            Call("destroy", "taskQueue", scheduledTaskQueueMap_[i])]
    \o SelectSeq([i \in 1..Len(kafkaProducers_) |->
                    Call("destroy", "producer", kafkaProducers_[i])],
                 LAMBDA c : c.id # Null)
    \o (IF databaseManager_ # Null
        THEN <<Call("destroy", "databaseManager", databaseManager_)>> ELSE <<>>)

\* The calls of stopOptionalComponents() in the order of its body.
stopOptionalComponentsCalls ==
    (IF embeddedHttpServer_ # Null
        THEN <<Call("destroy", "httpServer", embeddedHttpServer_)>> ELSE <<>>)
    \o [i \in 1..Len(kafkaConsumers_) |-> Call("stop", "consumer", i)]
    \o [i \in 1..Len(kafkaConsumers_) |-> Call("destroy", "consumer", i)]
    \o [i \in 1..Len(scheduledTaskQueueMap_) |->
            Call("destroy", "taskQueue", scheduledTaskQueueMap_[i])]
    \o SelectSeq([i \in 1..Len(kafkaProducers_) |->
                    Call("destroy", "producer", kafkaProducers_[i])],
                 LAMBDA c : c.id # Null)
    \o (IF databaseManager_ # Null
        THEN <<Call("destroy", "databaseManager", databaseManager_)>> ELSE <<>>)

\* void stopOptionalComponents()
StopOptionalComponents ==
    /\ MainAt("serverStopped")
    /\ phase' = "componentsStopped"
    /\ todo' = stopOptionalComponentsCalls
    /\ UNCHANGED <<aborted, calls, ret, builderVars, componentVars, server_, gateVars, shardVars, helperVars>>

\* ------------------------------------------------------------ stopRocksDb
\* Variant: the engine is deleted before the last handle is destroyed.
stopRocksDbCalls_DeleteBeforeLast ==
    [i \in 1..(Len(columnFamilyMap_) - 1) |->
        Call("DestroyColumnFamilyHandle", "columnFamily", columnFamilyMap_[i])]
    \o <<Call("delete", "rocksDb", 1)>>
    \o [i \in 1..(IF Len(columnFamilyMap_) > 0 THEN 1 ELSE 0) |->
        Call("DestroyColumnFamilyHandle", "columnFamily",
             columnFamilyMap_[Len(columnFamilyMap_)])]

\* The calls of stopRocksDb() in the order of its body.
stopRocksDbCalls ==
    [i \in 1..Len(columnFamilyMap_) |->
        Call("DestroyColumnFamilyHandle", "columnFamily", columnFamilyMap_[i])]
    \o <<Call("delete", "rocksDb", 1)>>

\* void stopRocksDb()
StopRocksDb ==
    /\ MainAt("componentsStopped")
    /\ phase' = "closed"
    /\ todo' = stopRocksDbCalls
    /\ UNCHANGED <<aborted, calls, ret, builderVars, componentVars, server_, gateVars, shardVars, helperVars>>

\* -------------------------------------------------- launchServer, stopServer
\* void launchServer(int port, int connectionIdleTimeoutMs): creates the server
\* and starts listening.
LaunchServer ==
    /\ MainAt("started")
    /\ phase' = "listening"
    /\ server_' = 1
    /\ calls' = Append(calls, Call("listen", "server", 1))
    /\ UNCHANGED <<aborted, todo, ret, builderVars, componentVars, gateVars, shardVars, helperVars>>

\* The body of stopServer(): if (server_) { stop; join; server_ = nullptr; }
\* A call through an indeterminate server_ is undefined.
StopServerBody ==
    IF server_ = Null
    THEN UNCHANGED <<server_, calls, aborted>>
    ELSE IF server_ = Garbage
    THEN \E outcome \in NullCallOutcomes :
           /\ aborted' = IF outcome = "crash" THEN "wild_dereference" ELSE aborted
           /\ server_' = IF outcome = "crash" THEN server_ ELSE Null
           /\ UNCHANGED calls
    ELSE /\ calls' = calls \o <<Call("stop", "server", server_), Call("join", "server", server_)>>
         /\ server_' = Null
         /\ UNCHANGED aborted

\* void stopServer()
StopServer ==
    /\ MainAt("listening")
    /\ phase' = "serverStopped"
    /\ StopServerBody
    /\ UNCHANGED <<todo, ret, builderVars, componentVars, gateVars, shardVars, helperVars>>

\* ------------------------------------------- the calls on the collaborators
Head1 == todo[1]
Pending(op, cls) == Running /\ todo # <<>> /\ Head1.op = op /\ Head1.cls = cls

\* start / destroy of the storage manager, a task queue, a producer or the
\* health/metrics endpoint, and DB::DestroyColumnFamilyHandle.
ComponentCall ==
    /\ Running /\ todo # <<>>
    /\ Head1.cls \in {"databaseManager", "taskQueue", "producer", "httpServer", "columnFamily"}
    /\ calls' = Append(calls, Head1)
    /\ todo' = Tail(todo)
    /\ UNCHANGED <<phase, aborted, ret, builderVars, componentVars, server_, gateVars, shardVars, helperVars>>

\* delete rocksDb_: the engine is closed; the member keeps its value.
DeleteRocksDb ==
    /\ Pending("delete", "rocksDb")
    /\ calls' = Append(calls, Head1)
    /\ todo' = Tail(todo)
    /\ rocksDb_' = "deleted"
    /\ UNCHANGED <<phase, aborted, ret, builderVars, columnFamilyMap_, databaseManager_,
                   scheduledTaskQueueMap_, kafkaConsumers_, kafkaProducers_,
                   embeddedHttpServer_, server_, gateVars, shardVars, helperVars>>

SetConsumer(i, field, value) ==
    [kafkaConsumers_ EXCEPT ![i] = [@ EXCEPT ![field] = value]]

\* consumer->init(RdKafka::Topic::OFFSET_STORED): verification; it may panic.
ConsumerInit ==
    /\ Pending("init", "consumer")
    /\ calls' = Append(calls, Head1)
    /\ \E ok \in BOOLEAN :
         IF ok
         THEN /\ kafkaConsumers_' = SetConsumer(Head1.id, "life", "inited")
              /\ todo' = Tail(todo)
              /\ UNCHANGED aborted
         ELSE /\ aborted' = "consumer_init"
              /\ UNCHANGED <<kafkaConsumers_, todo>>
    /\ UNCHANGED <<phase, ret, builderVars, rocksDb_, columnFamilyMap_, databaseManager_,
                   scheduledTaskQueueMap_, kafkaProducers_, embeddedHttpServer_,
                   server_, gateVars, shardVars, helperVars>>

\* consumer->start(): the consumer loop begins.
ConsumerStart ==
    /\ Pending("start", "consumer")
    /\ calls' = Append(calls, Head1)
    /\ todo' = Tail(todo)
    /\ kafkaConsumers_' = SetConsumer(Head1.id, "loop", "running")
    /\ UNCHANGED <<phase, aborted, ret, builderVars, rocksDb_, columnFamilyMap_,
                   databaseManager_, scheduledTaskQueueMap_, kafkaProducers_,
                   embeddedHttpServer_, server_, gateVars, shardVars, helperVars>>

\* consumer->stop(): non-blocking; the loop is asked to end.
ConsumerStop ==
    /\ Pending("stop", "consumer")
    /\ calls' = Append(calls, Head1)
    /\ todo' = Tail(todo)
    /\ kafkaConsumers_' =
         IF kafkaConsumers_[Head1.id].loop = "running"
         THEN SetConsumer(Head1.id, "loop", "stopping") ELSE kafkaConsumers_
    /\ UNCHANGED <<phase, aborted, ret, builderVars, rocksDb_, columnFamilyMap_,
                   databaseManager_, scheduledTaskQueueMap_, kafkaProducers_,
                   embeddedHttpServer_, server_, gateVars, shardVars, helperVars>>

\* The loop of a consumer that was asked to stop ends, on the consumer's thread.
ConsumerLoopExit ==
    /\ Running
    /\ \E i \in 1..Len(kafkaConsumers_) :
         /\ kafkaConsumers_[i].loop = "stopping"
         /\ kafkaConsumers_' = SetConsumer(i, "loop", "exited")
    /\ UNCHANGED <<phase, aborted, todo, calls, ret, builderVars, rocksDb_, columnFamilyMap_,
                   databaseManager_, scheduledTaskQueueMap_, kafkaProducers_,
                   embeddedHttpServer_, server_, gateVars, shardVars, helperVars>>

\* consumer->destroy() is entered: it blocks until the consumer has stopped.
ConsumerDestroyBegin ==
    /\ Pending("destroy", "consumer")
    /\ kafkaConsumers_[Head1.id].life # "destroying"
    /\ calls' = Append(calls, Head1)
    /\ kafkaConsumers_' = SetConsumer(Head1.id, "life", "destroying")
    /\ UNCHANGED <<phase, aborted, todo, ret, builderVars, rocksDb_, columnFamilyMap_,
                   databaseManager_, scheduledTaskQueueMap_, kafkaProducers_,
                   embeddedHttpServer_, server_, gateVars, shardVars, helperVars>>

\* consumer->destroy() returns, once the consumer's loop is no longer running.
ConsumerDestroyReturn ==
    /\ Pending("destroy", "consumer")
    /\ kafkaConsumers_[Head1.id].life = "destroying"
    /\ kafkaConsumers_[Head1.id].loop \notin {"running", "stopping"}
    /\ todo' = Tail(todo)
    /\ kafkaConsumers_' = SetConsumer(Head1.id, "life", "destroyed")
    /\ UNCHANGED <<phase, aborted, calls, ret, builderVars, rocksDb_, columnFamilyMap_,
                   databaseManager_, scheduledTaskQueueMap_, kafkaProducers_,
                   embeddedHttpServer_, server_, gateVars, shardVars, helperVars>>

\* ---------------------------------------------------------------- lookups
\* Names a caller may ask for: the configured ones and one more.
TopicNames == 1..(MaxTopics + 1)
ColumnFamilyNames == 1..(MaxColumnFamilies + 1)

\* Variant: an unknown topic is checked, as in getScheduledTaskQueue.
GetKafkaProducer_Checked(name) ==
    /\ Running
    /\ IF name \in DOMAIN kafkaProducers_
       THEN /\ ret' = [op |-> "getKafkaProducer", arg |-> name,
                       result |-> kafkaProducers_[name]]
            /\ UNCHANGED aborted
       ELSE /\ aborted' = "check"
            /\ ret' = [op |-> "getKafkaProducer", arg |-> name, result |-> Null]
    /\ UNCHANGED <<phase, todo, calls, builderVars, componentVars, server_, gateVars, shardVars, helperVars>>

\* std::shared_ptr<infra::kafka::Producer> getKafkaProducer(const std::string& name) const
GetKafkaProducer(name) ==
    /\ Running
    /\ ret' = [op |-> "getKafkaProducer", arg |-> name,
               result |-> IF name \in DOMAIN kafkaProducers_
                          THEN kafkaProducers_[name] ELSE Null]
    /\ UNCHANGED <<phase, aborted, todo, calls, builderVars, componentVars, server_, gateVars, shardVars, helperVars>>

\* Variant: no check; operator[] default-inserts the unknown name.
GetColumnFamily_Unchecked(name) ==
    /\ Running
    /\ columnFamilyMap_' = [n \in DOMAIN columnFamilyMap_ \cup {name} |->
                              IF n \in DOMAIN columnFamilyMap_
                              THEN columnFamilyMap_[n] ELSE Null]
    /\ ret' = [op |-> "getColumnFamily", arg |-> name, result |-> columnFamilyMap_'[name]]
    /\ UNCHANGED <<phase, aborted, todo, calls, builderVars, rocksDb_, databaseManager_,
                   scheduledTaskQueueMap_, kafkaConsumers_, kafkaProducers_,
                   embeddedHttpServer_, server_, gateVars, shardVars, helperVars>>

\* rocksdb::ColumnFamilyHandle* getColumnFamily(const std::string& name)
GetColumnFamily(name) ==
    /\ Running
    /\ IF name \in DOMAIN columnFamilyMap_
       THEN /\ ret' = [op |-> "getColumnFamily", arg |-> name,
                       result |-> columnFamilyMap_[name]]
            /\ UNCHANGED aborted
       ELSE \* CHECK_GT(columnFamilyMap_.count(name), 0)
            /\ aborted' = "column_family_not_found"
            /\ ret' = [op |-> "getColumnFamily", arg |-> name, result |-> Null]
    /\ UNCHANGED <<phase, todo, calls, builderVars, componentVars, server_, gateVars, shardVars, helperVars>>

\* --------------------------------------------------------------- the service
Next ==
    \/ Initialize
    \/ ConstructBuilder
    \/ StartOptionalComponents
    \/ LaunchServer
    \/ StopServer
    \/ StopOptionalComponents
    \/ StopRocksDb
    \/ ComponentCall
    \/ DeleteRocksDb
    \/ ConsumerInit
    \/ ConsumerStart
    \/ ConsumerStop
    \/ ConsumerLoopExit
    \/ ConsumerDestroyBegin
    \/ ConsumerDestroyReturn
    \/ \E name \in TopicNames : GetKafkaProducer(name)
    \/ \E name \in ColumnFamilyNames : GetColumnFamily(name)

Spec == Init /\ [][Next]_vars

\* ---------------------------------------- the service and its connections
\* A service without optional components, with the connections it accepts
\* while it listens.
NextBuilder ==
    \/ InitializeBare
    \/ ConstructBuilder
    \/ StartOptionalComponents
    \/ LaunchServer
    \/ NewHandler
    \/ StopServer
    \/ StopOptionalComponents
    \/ StopRocksDb
    \/ ComponentCall
    \/ DeleteRocksDb
    \/ \E name \in TopicNames : GetKafkaProducer(name)

SpecBuilder == Init /\ [][NextBuilder]_vars

\* ------------------------------------------------------ the one-off gate
\* Variant: a bound of one hour.
kMaxVersionTimestampAgeMs_Hour == 60 * 60 * 1000

\* static constexpr int64_t kMaxVersionTimestampAgeMs = 30 * 60 * 1000;
kMaxVersionTimestampAgeMs == 30 * 60 * 1000

\* The version timestamps a deployment may carry, the clock at the first
\* startup and the step of the clock.
Targets == {1000 * k : k \in 1..MaxTargets}
StartMs == 2 * 1000
TickMs == 10 * 60 * 1000

\* The persisted version timestamp as a number: an absent key is older than
\* every version.
PersistedOr0 == IF persisted = Null THEN 0 ELSE persisted

\* Variant: a target equal to the persisted version is let through.
canApplyOneOffFlags_Inclusive(versionTimestampMs) ==
    /\ PersistedOr0 <= versionTimestampMs
    /\ nowMs - versionTimestampMs < kMaxVersionTimestampAgeMs

\* bool canApplyOneOffFlags(int64_t versionTimestampMs): the persisted version
\* has not reached the target, and the target is younger than the bound.
canApplyOneOffFlags(versionTimestampMs) ==
    /\ PersistedOr0 < versionTimestampMs
    /\ nowMs - versionTimestampMs < kMaxVersionTimestampAgeMs

\* Startup evaluates the gate for the version timestamp of the deployment.
EvaluateGate ==
    /\ MainAt("constructed")
    /\ \E target \in Targets :
         gate' = [target |-> target, persisted |-> PersistedOr0, now |-> nowMs,
                  result |-> canApplyOneOffFlags(target)]
    /\ phase' = "gated"
    /\ UNCHANGED <<aborted, todo, calls, ret, builderVars, componentVars, server_, shardVars, helperVars,
                   persisted, nowMs, persistLog>>

\* Variant: every startup records its target, permitted or not.
PersistVersionTimestamp_Unguarded ==
    /\ MainAt("gated")
    /\ persisted' = gate.target
    /\ persistLog' = persistLog \cup {gate.target}
    /\ phase' = "versionPersisted"
    /\ UNCHANGED <<aborted, todo, calls, ret, builderVars, componentVars, server_,
                   shardVars, helperVars, nowMs, gate>>

\* void persistVersionTimestamp(int64_t versionTimestampMs): writes the key,
\* whatever it held.  The caller records the version of a migration it applied.
PersistVersionTimestamp ==
    /\ MainAt("gated")
    /\ gate.result
    /\ persisted' = gate.target
    /\ persistLog' = persistLog \cup {gate.target}
    /\ phase' = "versionPersisted"
    /\ UNCHANGED <<aborted, todo, calls, ret, builderVars, componentVars, server_, shardVars, helperVars,
                   nowMs, gate>>

\* The process ends and is started again: the storage keeps what was written.
Restart ==
    /\ phase \in {"gated", "versionPersisted"}
    /\ phase' = "constructed"
    /\ gate' = NoGate
    /\ UNCHANGED <<aborted, todo, calls, ret, builderVars, componentVars, server_, shardVars, helperVars,
                   persisted, nowMs, persistLog>>

\* Time passes.
Tick ==
    /\ nowMs < StartMs + MaxTicks * TickMs
    /\ nowMs' = nowMs + TickMs
    /\ UNCHANGED <<phase, aborted, todo, calls, ret, builderVars, componentVars, server_, shardVars, helperVars,
                   persisted, gate, persistLog>>

InitGate ==
    /\ phase = "constructed"
    /\ aborted = "no"
    /\ todo = <<>>
    /\ calls = <<>>
    /\ ret = NoRet
    /\ singletonHandler_ = TRUE
    /\ handler_ = Null
    /\ factoryCalls = 0
    /\ vended = <<>>
    /\ opened = <<>>
    /\ returned = <<>>
    /\ rocksDb_ = "open"
    /\ columnFamilyMap_ = <<>>
    /\ databaseManager_ = Null
    /\ scheduledTaskQueueMap_ = <<>>
    /\ kafkaConsumers_ = <<>>
    /\ kafkaProducers_ = <<>>
    /\ embeddedHttpServer_ = Null
    /\ server_ = Null
    /\ persisted \in {Null} \cup Targets
    /\ nowMs = StartMs
    /\ gate = NoGate
    /\ persistLog = {}
    /\ NoGroup
    /\ kafkaConsumerHelper_ = Null
    /\ metricsRegistry_ = Null

NextGate ==
    \/ EvaluateGate
    \/ PersistVersionTimestamp
    \/ Restart
    \/ Tick

SpecGate == InitGate /\ [][NextGate]_vars

\* -------------------------------------------- a shutdown step that fails
\* stopOptionalComponents() calls stop() and destroy() with no handler around
\* them: a call that fails by throwing leaves the function at that statement,
\* and with no handler in a caller the process terminates.
ShutdownCallThrows ==
    /\ Running /\ todo # <<>>
    /\ phase = "componentsStopped"
    /\ Head1.op \in {"stop", "destroy"}
    /\ calls' = IF Head1.cls = "consumer" /\ Head1.op = "destroy"
                   /\ kafkaConsumers_[Head1.id].life = "destroying"
                THEN calls ELSE Append(calls, Head1)
    /\ todo' = <<>>
    /\ aborted' = "uncaught_exception"
    /\ UNCHANGED <<phase, ret, builderVars, componentVars, server_, gateVars, shardVars, helperVars>>

NextShutdown ==
    \/ Initialize
    \/ ConstructBuilder
    \/ StartOptionalComponents
    \/ LaunchServer
    \/ StopServer
    \/ StopOptionalComponents
    \/ StopRocksDb
    \/ ComponentCall
    \/ DeleteRocksDb
    \/ ConsumerInit
    \/ ConsumerStart
    \/ ConsumerStop
    \/ ConsumerLoopExit
    \/ ConsumerDestroyBegin
    \/ ConsumerDestroyReturn
    \/ ShutdownCallThrows

SpecShutdown == Init /\ [][NextShutdown]_vars

\* ------------------------------------- getters for the optional components
\* create(config) and the initialize* member functions of a service whose
\* handlers use the getters: the storage manager, the consumer helper, the
\* metrics registry and the task queues are constructed if configured.
InitializeAccessed ==
    /\ MainAt("constructed")
    /\ \E hasDbm \in BOOLEAN, hasHelper \in BOOLEAN, hasRegistry \in BOOLEAN,
          nTq \in 0..MaxTaskQueues :
         /\ databaseManager_' = IF hasDbm THEN 1 ELSE Null
         /\ kafkaConsumerHelper_' = IF hasHelper THEN 1 ELSE Null
         /\ metricsRegistry_' = IF hasRegistry THEN 1 ELSE Null
         /\ scheduledTaskQueueMap_' = [name \in 1..nTq |-> name]
    /\ rocksDb_' = "open"
    /\ columnFamilyMap_' = <<1>>
    /\ kafkaConsumers_' = <<>>
    /\ kafkaProducers_' = <<>>
    /\ embeddedHttpServer_' = Null
    /\ phase' = "initialized"
    /\ UNCHANGED <<aborted, todo, calls, ret, builderVars, server_, gateVars, shardVars>>

\* The value a getter hands back, or the end of the process in its check.
Returns(op, arg, value) ==
    /\ ret' = [op |-> op, arg |-> arg, result |-> value]
    /\ UNCHANGED aborted
CheckFails(op, arg) ==
    /\ aborted' = "check_failed"
    /\ ret' = [op |-> op, arg |-> arg, result |-> Null]

\* std::shared_ptr<pipeline::DatabaseManager> getDatabaseManager() const
GetDatabaseManager ==
    /\ Running
    /\ IF databaseManager_ # Null  \* CHECK_NOTNULL(databaseManager_.get())
       THEN Returns("getDatabaseManager", Null, databaseManager_)
       ELSE CheckFails("getDatabaseManager", Null)
    /\ UNCHANGED <<phase, todo, calls, builderVars, componentVars, server_, gateVars,
                   shardVars, helperVars>>

\* std::shared_ptr<infra::kafka::ConsumerHelper> getKafkaConsumerHelper() const
GetKafkaConsumerHelper ==
    /\ Running
    /\ IF kafkaConsumerHelper_ # Null  \* CHECK_NOTNULL(kafkaConsumerHelper_.get())
       THEN Returns("getKafkaConsumerHelper", Null, kafkaConsumerHelper_)
       ELSE CheckFails("getKafkaConsumerHelper", Null)
    /\ UNCHANGED <<phase, todo, calls, builderVars, componentVars, server_, gateVars,
                   shardVars, helperVars>>

\* Names a caller may ask for: the configured ones and one more.
TaskQueueNames == 1..(MaxTaskQueues + 1)

\* Variant: an unknown name yields an empty pointer, as getKafkaProducer does.
GetScheduledTaskQueue_Unchecked(name) ==
    /\ Running
    /\ Returns("getScheduledTaskQueue", name,
               IF name \in DOMAIN scheduledTaskQueueMap_
               THEN scheduledTaskQueueMap_[name] ELSE Null)
    /\ UNCHANGED <<phase, todo, calls, builderVars, componentVars, server_, gateVars,
                   shardVars, helperVars>>

\* std::shared_ptr<infra::ScheduledTaskQueue> getScheduledTaskQueue(const std::string& name) const
GetScheduledTaskQueue(name) ==
    /\ Running
    /\ IF name \in DOMAIN scheduledTaskQueueMap_  \* CHECK(it != scheduledTaskQueueMap_.end())
       THEN Returns("getScheduledTaskQueue", name, scheduledTaskQueueMap_[name])
       ELSE CheckFails("getScheduledTaskQueue", name)
    /\ UNCHANGED <<phase, todo, calls, builderVars, componentVars, server_, gateVars,
                   shardVars, helperVars>>

\* std::shared_ptr<prometheus::Registry> getMetricsRegistry() const
GetMetricsRegistry ==
    /\ Running
    /\ IF metricsRegistry_ # Null  \* CHECK_NOTNULL(metricsRegistry_.get())
       THEN Returns("getMetricsRegistry", Null, metricsRegistry_)
       ELSE CheckFails("getMetricsRegistry", Null)
    /\ UNCHANGED <<phase, todo, calls, builderVars, componentVars, server_, gateVars,
                   shardVars, helperVars>>

NextAccessors ==
    \/ InitializeAccessed
    \/ GetDatabaseManager
    \/ GetKafkaConsumerHelper
    \/ \E name \in TaskQueueNames : GetScheduledTaskQueue(name)
    \/ GetMetricsRegistry

SpecAccessors == Init /\ [][NextAccessors]_vars

\* ------------------------------------------------- the storage engine
\* A service without optional components over an engine of several column
\* families (the default one, the metadata one, one per shard of a group).
InitializeStorage ==
    /\ MainAt("constructed")
    /\ \E nCf \in 1..MaxHandles : InitializeWith(nCf, FALSE, FALSE, 0, 0, <<>>)

\* Names a caller may ask for: the opened column families and one more.
HandleNames == 1..(MaxHandles + 1)

NextRocksDb ==
    \/ InitializeStorage
    \/ ConstructBuilder
    \/ StartOptionalComponents
    \/ LaunchServer
    \/ StopServer
    \/ StopOptionalComponents
    \/ StopRocksDb
    \/ ComponentCall
    \/ DeleteRocksDb
    \/ \E name \in HandleNames : GetColumnFamily(name)

SpecRocksDb == Init /\ [][NextRocksDb]_vars

\* ------------------------------------------ stopRocksDb called once more
\* stopRocksDb() is public and has no guard: a caller can invoke it again
\* after the engine was closed.  rocksDb_ and columnFamilyMap_ still hold what
\* they held, so the body makes the same calls again.
StopRocksDbAgain ==
    /\ MainAt("closed")
    /\ phase' = "closedAgain"
    /\ todo' = stopRocksDbCalls
    /\ UNCHANGED <<aborted, calls, ret, builderVars, componentVars, server_, gateVars,
                   shardVars, helperVars>>

\* A call through the deleted engine, or the second delete of it, is undefined:
\* the process may end in it (this action), or the call goes on as ComponentCall
\* and DeleteRocksDb describe.
CallOnDeletedRocksDb ==
    /\ Running /\ todo # <<>>
    /\ phase = "closedAgain"
    /\ Head1.cls \in {"columnFamily", "rocksDb"}
    /\ calls' = Append(calls, Head1)
    /\ aborted' = "use_after_free"
    /\ UNCHANGED <<phase, todo, ret, builderVars, componentVars, server_, gateVars,
                   shardVars, helperVars>>

NextRocksDbReuse ==
    \/ NextRocksDb
    \/ StopRocksDbAgain
    \/ CallOnDeletedRocksDb

SpecRocksDbReuse == Init /\ [][NextRocksDbReuse]_vars

\* --------------------------------------- stopServer outside the main order
\* stopServer() is public and has no precondition: it can be called on a
\* bootstrap on which launchServer was never called ...
StopServerUnlaunched ==
    /\ ControlIdle
    /\ phase \in {"constructed", "initialized", "assembled", "started"}
    /\ StopServerBody
    /\ UNCHANGED <<phase, todo, ret, builderVars, componentVars, gateVars, shardVars, helperVars>>

\* ... and again after it has returned.
StopServerAgain ==
    /\ MainAt("serverStopped")
    /\ StopServerBody
    /\ UNCHANGED <<phase, todo, ret, builderVars, componentVars, gateVars, shardVars, helperVars>>

NextServer ==
    \/ InitializeStorage
    \/ ConstructBuilder
    \/ StartOptionalComponents
    \/ LaunchServer
    \/ StopServer
    \/ StopServerUnlaunched
    \/ StopServerAgain
    \/ StopOptionalComponents
    \/ StopRocksDb
    \/ ComponentCall
    \/ DeleteRocksDb

SpecServer == Init /\ [][NextServer]_vars

\* ------------------------------------------- column family (shard) groups
\* A std::string is the sequence of its characters.
Digits == <<"0", "1", "2", "3", "4", "5", "6", "7", "8", "9">>

\* "{}" applied to an int: its decimal digits, after a minus sign if negative.
RECURSIVE Decimal(_)
Decimal(n) ==
    IF n < 0 THEN <<"-">> \o Decimal(0 - n)
    ELSE IF n < 10 THEN <<Digits[n + 1]>>
    ELSE Decimal(n \div 10) \o <<Digits[(n % 10) + 1]>>

\* static std::string getColumnFamilyNameInGroup(const std::string& groupName, int index):
\* folly::sformat("{}-{}", groupName, index)
getColumnFamilyNameInGroup(name, index) ==
    name \o <<"-">> \o Decimal(index)

\* Variant: the name carries the global shard index of the entry.
processRocksDbColumnFamilyGroupNames_ShardIndex(name, config) ==
    [k \in 1..config.localVirtualShardCount |->
        getColumnFamilyNameInGroup(name,
            config.startShardIndex + (k - 1) * config.shardIndexIncrement)]

\* The names processRocksDbColumnFamilyGroup hands to the callback, in the
\* order of the calls: one per index 0 .. localVirtualShardCount - 1.
processRocksDbColumnFamilyGroupNames(name, config) ==
    [k \in 1..config.localVirtualShardCount |->
        getColumnFamilyNameInGroup(name, k - 1)]

\* void processRocksDbColumnFamilyGroup(groupName, groupConfig, callback)
ProcessRocksDbColumnFamilyGroup ==
    /\ MainAt("constructed")
    /\ Len(visits) < MaxResolves
    /\ visits' = Append(visits, processRocksDbColumnFamilyGroupNames(groupName, groupConfig))
    /\ UNCHANGED <<phase, aborted, todo, calls, ret, builderVars, componentVars, server_,
                   gateVars, helperVars, groupName, groupConfig>>

\* Group names of a configuration: letters, digits and the separator itself.
GroupNames == {<<"a">>, <<"a", "-", "1">>, <<"b", "2">>}

\* The group configurations parseRocksDbColumnFamilyGroupConfigs may produce.
GroupConfigs ==
    {RocksDbColumnFamilyGroupConfig(s, n, d) :
        s \in 0..MaxStartShardIndex, n \in 0..MaxShardCount, d \in 1..MaxShardIndexIncrement}

InitShards ==
    /\ phase = "constructed"
    /\ aborted = "no"
    /\ todo = <<>>
    /\ calls = <<>>
    /\ ret = NoRet
    /\ singletonHandler_ = TRUE
    /\ handler_ = Null
    /\ factoryCalls = 0
    /\ vended = <<>>
    /\ opened = <<>>
    /\ returned = <<>>
    /\ rocksDb_ = Null
    /\ columnFamilyMap_ = <<>>
    /\ databaseManager_ = Null
    /\ scheduledTaskQueueMap_ = <<>>
    /\ kafkaConsumers_ = <<>>
    /\ kafkaProducers_ = <<>>
    /\ embeddedHttpServer_ = Null
    /\ server_ = Null
    /\ persisted = Null
    /\ nowMs = StartMs
    /\ gate = NoGate
    /\ persistLog = {}
    /\ groupName \in GroupNames
    /\ groupConfig \in GroupConfigs
    /\ visits = <<>>
    /\ kafkaConsumerHelper_ = Null
    /\ metricsRegistry_ = Null

NextShards == ProcessRocksDbColumnFamilyGroup

SpecShards == InitShards /\ [][NextShards]_vars

\* ================================================================ properties
\* Positions in `calls` of the calls `op` on a collaborator of class `cls`.
CallsOf(op, cls) == {k \in 1..Len(calls) : calls[k].op = op /\ calls[k].cls = cls}
Consumers == 1..Len(kafkaConsumers_)
Done == phase = "closed" /\ ControlIdle

\* C1: in startOptionalComponents, whatever the size of the cohort, start is
\* called on a consumer only after init has been called on, and has returned
\* for, every consumer of the cohort: no consumer has been started while
\* another one is not yet initialised.
C1_InitBeforeAnyStart ==
    /\ \A k \in CallsOf("start", "consumer") : \A i \in Consumers :
          /\ \E j \in 1..(k - 1) : calls[j] = Call("init", "consumer", i)
          /\ kafkaConsumers_[i].life # "constructed"
    /\ \A i \in Consumers : kafkaConsumers_[i].loop # "idle" =>
          \A j \in Consumers : kafkaConsumers_[j].life # "constructed"

\* C1 witness: a cohort of two, the first consumer started, the second one
\* initialised and not yet started.
C1_Witness ==
    /\ Len(kafkaConsumers_) = 2
    /\ kafkaConsumers_[1].loop = "running"
    /\ kafkaConsumers_[2].loop = "idle"
    /\ todo # <<>> /\ Head1 = Call("start", "consumer", 2)

\* C2: when init of a consumer fails fatally, start has been called on no
\* consumer, the health/metrics endpoint has not been started and the server
\* is not listening; nothing runs after the failure, so this stays so.
C2_InitFailureStartsNothing ==
    aborted = "consumer_init" =>
        /\ CallsOf("start", "consumer") = {}
        /\ \A i \in Consumers : kafkaConsumers_[i].loop = "idle"
        /\ CallsOf("start", "httpServer") = {}
        /\ CallsOf("listen", "server") = {}
        /\ phase = "started"
        /\ ~ ENABLED Next

\* C2 witness: the second consumer of a cohort fails after the first one was
\* verified, with an endpoint configured.
C2_Witness ==
    /\ aborted = "consumer_init"
    /\ Len(kafkaConsumers_) = 2
    /\ kafkaConsumers_[1].life = "inited"
    /\ kafkaConsumers_[2].life = "constructed"
    /\ embeddedHttpServer_ # Null

\* The class of a shutdown call, in the order of the shutdown; 0 for a call
\* that is not part of the shutdown of the components and the engine.
ShutdownRank(c) ==
    CASE c.op = "destroy" /\ c.cls = "httpServer" -> 1
      [] c.op = "stop" /\ c.cls = "consumer" -> 2
      [] c.op = "destroy" /\ c.cls = "consumer" -> 3
      [] c.op = "destroy" /\ c.cls = "taskQueue" -> 4
      [] c.op = "destroy" /\ c.cls = "producer" -> 5
      [] c.op = "destroy" /\ c.cls = "databaseManager" -> 6
      [] c.cls \in {"columnFamily", "rocksDb"} -> 7
      [] OTHER -> 0

\* The classes startOptionalComponents starts, and the call that ends each.
StartedClasses == {"databaseManager", "taskQueue", "consumer", "httpServer"}

\* C3: the shutdown calls (stopOptionalComponents, then stopRocksDb) come in
\* the order endpoint destroy, consumer stops, consumer destroys, task-queue
\* destroys, producer destroys, storage-manager destroy, engine close: once
\* the shutdown has begun every call belongs to it and none is of an earlier
\* class than the call before it; and of two classes that were started, the
\* one started first is destroyed last.
C3_ShutdownOrder ==
    /\ \A k \in 1..(Len(calls) - 1) :
          ShutdownRank(calls[k]) > 0 => ShutdownRank(calls[k + 1]) >= ShutdownRank(calls[k])
    /\ \A x, y \in StartedClasses :
          \A a \in CallsOf("start", x), b \in CallsOf("start", y) :
              (x # y /\ a < b) =>
                  \A p \in CallsOf("destroy", x), q \in CallsOf("destroy", y) : q < p
    /\ Done => calls[Len(calls)] = Call("delete", "rocksDb", 1)

\* C3 witness: a completed shutdown of a service with every class present.
C3_Witness ==
    /\ Done
    /\ \A r \in 1..7 : \E k \in 1..Len(calls) : ShutdownRank(calls[k]) = r
    /\ Len(kafkaConsumers_) >= 2

\* C4: stop has been called on every consumer before destroy is called on
\* any, and a destroy is entered only when every destroy entered before it has
\* returned: at most one consumer destroy is in progress.
C4_StopAllThenDestroyOneAtATime ==
    /\ \A k \in CallsOf("destroy", "consumer") : \A i \in Consumers :
          \E j \in 1..(k - 1) : calls[j] = Call("stop", "consumer", i)
    /\ Cardinality({i \in Consumers : kafkaConsumers_[i].life = "destroying"}) <= 1
    /\ \A j, k \in CallsOf("destroy", "consumer") :
          j < k => kafkaConsumers_[calls[j].id].life = "destroyed"

\* C4 witness: the first consumer's destroy has returned and the second one's
\* is blocked on a loop that has not ended yet.
C4_Witness ==
    /\ Len(kafkaConsumers_) = 2
    /\ kafkaConsumers_[1].life = "destroyed"
    /\ kafkaConsumers_[2].life = "destroying"
    /\ kafkaConsumers_[2].loop = "stopping"

BuilderConstructed == phase \notin {"constructed", "initialized"}

\* C5: with either strategy, every newHandler call delivers connectionOpened
\* to the handler it picked to return, the freshly built one in per-connection
\* mode: in every call that picked a handler, the receiver of connectionOpened
\* is that handler.
C5_ConnectionOpenedOnVendedHandler ==
    \A k \in 1..Len(vended) : vended[k] # Null => opened[k] = vended[k]

\* C6: in singleton mode the strategy is invoked once, by the constructor
\* (before any newHandler call), and every newHandler call picks and returns
\* the handler built then, without invoking the strategy.
C6_SingletonBuiltOnce ==
    singletonHandler_ =>
        /\ factoryCalls = (IF BuilderConstructed THEN 1 ELSE 0)
        /\ vended # <<>> => handler_ # Null
        /\ \A k \in 1..Len(vended) : vended[k] = handler_
        /\ returned = vended

\* C6 witness: two connections were handed the singleton.
C6_Witness ==
    /\ singletonHandler_
    /\ Len(returned) = 2
    /\ returned[1] = 1 /\ returned[2] = 1

C8_GetKafkaProducerIsPureLookup ==
    [][ /\ \A name \in TopicNames : GetKafkaProducer(name) =>
              /\ ret'.result = (IF name \in DOMAIN kafkaProducers_
                                THEN kafkaProducers_[name] ELSE Null)
              /\ aborted' = "no"
              /\ kafkaProducers_' = kafkaProducers_
              /\ (ret.op = "getKafkaProducer" /\ ret.arg = name /\ ret.result # Null)
                     => ret'.result = ret.result
        /\ phase # "constructed" => kafkaProducers_' = kafkaProducers_
        /\ \A t, u \in DOMAIN kafkaProducers_ :
              (t # u /\ kafkaProducers_[t] # Null) => kafkaProducers_[t] # kafkaProducers_[u]
      ]_vars

\* C8 witness: a registered topic is looked up after the shutdown has finished.
C8_Witness ==
    /\ Done
    /\ ret.op = "getKafkaProducer"
    /\ ret.arg \in DOMAIN kafkaProducers_
    /\ ret.result # Null

\* C9: a getColumnFamily(name) step returns the stored, non-empty handle when
\* name is in the map and ends the process when it is not; it adds no entry,
\* and once built the map never changes.
C9_GetColumnFamilyReturnsOrAborts ==
    [][ /\ \A name \in ColumnFamilyNames : GetColumnFamily(name) =>
              /\ columnFamilyMap_' = columnFamilyMap_
              /\ IF name \in DOMAIN columnFamilyMap_
                 THEN /\ ret'.result = columnFamilyMap_[name]
                      /\ ret'.result # Null
                      /\ aborted' = "no"
                 ELSE aborted' # "no"
        /\ phase # "constructed" => columnFamilyMap_' = columnFamilyMap_
      ]_vars

\* C9 witness: a lookup of an unconfigured name has ended the process.
C9_Witness ==
    /\ aborted = "column_family_not_found"
    /\ columnFamilyMap_ # <<>>
    /\ ret.arg \notin DOMAIN columnFamilyMap_

C11_StalenessBound ==
    /\ kMaxVersionTimestampAgeMs = 1800000
    /\ \A t \in Targets :
          nowMs - t > kMaxVersionTimestampAgeMs => ~ canApplyOneOffFlags(t)
    /\ gate.target # Null =>
          /\ gate.now - gate.target > kMaxVersionTimestampAgeMs => ~ gate.result
          /\ (gate.target = 2000 /\ gate.now = 2000 + 600000
                /\ gate.persisted < 2000) => gate.result
          /\ (gate.target = 2000 /\ gate.now = 2000 + 2400000) => ~ gate.result

\* C11 witness: target 2000 was never persisted and the gate, asked 40 minutes
\* after it, denied the migration.
C11_Witness ==
    /\ phase = "gated"
    /\ gate.target = 2000
    /\ gate.persisted = 0
    /\ persistLog = {}
    /\ gate.now = 2000 + 2400000
    /\ ~ gate.result

\* Reading a column family name back: the value of a character as a digit,
\* whether a string is the decimal form of a natural number, and that number.
DigitValue(c) == CHOOSE d \in 0..9 : Digits[d + 1] = c
IsDecimal(s) ==
    /\ Len(s) >= 1
    /\ \A j \in 1..Len(s) : \E d \in 0..9 : Digits[d + 1] = s[j]
    /\ Len(s) > 1 => s[1] # "0"
RECURSIVE ParseDecimal(_)
ParseDecimal(s) ==
    IF Len(s) = 1 THEN DigitValue(s[1])
    ELSE 10 * ParseDecimal(SubSeq(s, 1, Len(s) - 1)) + DigitValue(s[Len(s)])

\* C12: every resolution of a group with localVirtualShardCount = n calls the
\* callback exactly n times; the k-th call (k = 1..n) receives the group
\* name, a "-" and the decimal form of k - 1, whatever startShardIndex and
\* shardIndexIncrement are; the n names are pairwise distinct, and every
\* resolution of the same configuration yields the same names.
C12_ShardGroupNames ==
    \A r \in 1..Len(visits) :
        LET v == visits[r]
            n == groupConfig.localVirtualShardCount
            g == Len(groupName)
        IN  /\ Len(v) = n
            /\ \A k \in 1..n :
                 LET index == SubSeq(v[k], g + 2, Len(v[k]))
                 IN  /\ Len(v[k]) > g + 1
                     /\ SubSeq(v[k], 1, g) = groupName
                     /\ v[k][g + 1] = "-"
                     /\ IsDecimal(index)
                     /\ ParseDecimal(index) = k - 1
            /\ \A j, k \in 1..n : j # k => v[j] # v[k]
            /\ \A q \in 1..Len(visits) : visits[q] = v

\* C12 witness: a group whose name holds the separator, with a start index
\* and an increment other than the defaults and more than ten entries, has
\* been resolved twice.
C12_Witness ==
    /\ Len(visits) = 2
    /\ groupName = <<"a", "-", "1">>
    /\ groupConfig.startShardIndex = 1
    /\ groupConfig.shardIndexIncrement = 2
    /\ groupConfig.localVirtualShardCount = 11
    /\ visits[1][11] = <<"a", "-", "1", "-", "1", "0">>

\* The class of a startup call, in the order of startOptionalComponents and
\* launchServer; 0 for any other call.
StartRank(c) ==
    CASE c.op = "start" /\ c.cls = "databaseManager" -> 1
      [] c.op = "start" /\ c.cls = "taskQueue" -> 2
      [] c.op = "init" /\ c.cls = "consumer" -> 3
      [] c.op = "start" /\ c.cls = "consumer" -> 4
      [] c.op = "start" /\ c.cls = "httpServer" -> 5
      [] c.op = "listen" /\ c.cls = "server" -> 6
      [] OTHER -> 0

\* C13: the startup calls come in the order storage manager start, task
\* queue starts, consumer inits, consumer starts, endpoint start, listen: no
\* startup call is of an earlier class than the startup call before it.  A
\* task queue is started only after the configured storage manager was
\* started and before the server listens; the server listens only after
\* every configured task queue was started; the endpoint is started only
\* after start was called on every consumer.
C13_StartOrder ==
    /\ \A k \in 1..(Len(calls) - 1) :
          (StartRank(calls[k]) > 0 /\ StartRank(calls[k + 1]) > 0)
              => StartRank(calls[k]) <= StartRank(calls[k + 1])
    /\ \A k \in CallsOf("start", "taskQueue") :
          /\ databaseManager_ # Null =>
                \E j \in 1..(k - 1) : calls[j] = Call("start", "databaseManager", databaseManager_)
          /\ \A j \in CallsOf("listen", "server") : k < j
    /\ \A k \in CallsOf("listen", "server") :
          \A i \in 1..Len(scheduledTaskQueueMap_) :
              \E j \in 1..(k - 1) : calls[j] = Call("start", "taskQueue", scheduledTaskQueueMap_[i])
    /\ \A k \in CallsOf("start", "httpServer") : \A i \in Consumers :
          \E j \in 1..(k - 1) : calls[j] = Call("start", "consumer", i)

\* C13 witness: with a storage manager, a task queue, two consumers and an
\* endpoint configured, all of them were started and the server listens.
C13_Witness ==
    /\ phase = "listening"
    /\ Running
    /\ databaseManager_ # Null
    /\ Len(scheduledTaskQueueMap_) >= 1
    /\ Len(kafkaConsumers_) = 2
    /\ embeddedHttpServer_ # Null
    /\ CallsOf("start", "httpServer") # {}
    /\ CallsOf("start", "taskQueue") # {}

\* stopOptionalComponents is over: it has returned, or one of its calls
\* failed and it was left.
StopOptionalComponentsOver ==
    \/ phase = "closed"
    \/ phase = "componentsStopped" /\ todo = <<>> /\ Running
    \/ aborted = "uncaught_exception"

\* The number of destroy calls made on a component.
DestroyCount(cls, id) ==
    Cardinality({k \in 1..Len(calls) : calls[k] = Call("destroy", cls, id)})

\* C14: once stopOptionalComponents is over, destroy has been called exactly
\* once on every configured optional component (the endpoint, each consumer,
\* each task queue, each producer, the storage manager), in the order of the
\* shutdown, also when a stop or destroy call before it failed; at no time
\* has a component been destroyed twice.
C14_ShutdownBestEffort ==
    /\ \A k \in 1..(Len(calls) - 1) :
          ShutdownRank(calls[k]) > 0 => ShutdownRank(calls[k + 1]) >= ShutdownRank(calls[k])
    /\ \A k \in 1..Len(calls) :
          calls[k].op = "destroy" => DestroyCount(calls[k].cls, calls[k].id) = 1
    /\ StopOptionalComponentsOver =>
          /\ embeddedHttpServer_ # Null => DestroyCount("httpServer", embeddedHttpServer_) = 1
          /\ \A i \in Consumers : DestroyCount("consumer", i) = 1
          /\ \A i \in 1..Len(scheduledTaskQueueMap_) :
                DestroyCount("taskQueue", scheduledTaskQueueMap_[i]) = 1
          /\ \A i \in 1..Len(kafkaProducers_) :
                kafkaProducers_[i] # Null => DestroyCount("producer", kafkaProducers_[i]) = 1
          /\ databaseManager_ # Null => DestroyCount("databaseManager", databaseManager_) = 1

\* The getters of the optional components handler logic may require.
RequiredGetters ==
    {"getDatabaseManager", "getKafkaConsumerHelper", "getScheduledTaskQueue",
     "getMetricsRegistry"}

\* C15: a step of getDatabaseManager, getKafkaConsumerHelper,
\* getScheduledTaskQueue(name) or getMetricsRegistry ends the process when
\* the component is not configured, and otherwise hands back the configured
\* component, which is not null, and lets the process run; none of them
\* changes a member.  So whatever one of them has returned to a caller is a
\* configured component, never a null or default-constructed one.
C15_GettersReturnOrAbort ==
    [][ /\ GetDatabaseManager =>
              /\ IF databaseManager_ # Null
                 THEN ret'.result = databaseManager_ /\ aborted' = "no"
                 ELSE aborted' # "no"
              /\ UNCHANGED <<componentVars, helperVars>>
        /\ GetKafkaConsumerHelper =>
              /\ IF kafkaConsumerHelper_ # Null
                 THEN ret'.result = kafkaConsumerHelper_ /\ aborted' = "no"
                 ELSE aborted' # "no"
              /\ UNCHANGED <<componentVars, helperVars>>
        /\ \A name \in TaskQueueNames : GetScheduledTaskQueue(name) =>
              /\ IF name \in DOMAIN scheduledTaskQueueMap_
                 THEN /\ ret'.result = scheduledTaskQueueMap_[name]
                      /\ ret'.result # Null
                      /\ aborted' = "no"
                 ELSE aborted' # "no"
              /\ UNCHANGED <<componentVars, helperVars>>
        /\ GetMetricsRegistry =>
              /\ IF metricsRegistry_ # Null
                 THEN ret'.result = metricsRegistry_ /\ aborted' = "no"
                 ELSE aborted' # "no"
              /\ UNCHANGED <<componentVars, helperVars>>
        /\ (ret'.op \in RequiredGetters /\ aborted' = "no") => ret'.result # Null
      ]_vars

\* C15 witness: in a service with a storage manager and a task queue and
\* without a consumer helper, getKafkaConsumerHelper ended the process.
C15_Witness ==
    /\ aborted = "check_failed"
    /\ ret.op = "getKafkaConsumerHelper"
    /\ databaseManager_ # Null
    /\ kafkaConsumerHelper_ = Null
    /\ Len(scheduledTaskQueueMap_) = 1

\* C16: with either strategy a null instance from redisHandlerFactory ends
\* the process at startup: when the check of the constructor has fired the
\* server has never listened, no newHandler call (all of which come after the
\* server listens) has obtained a null instance, and newHandler has returned
\* no null handler.
C16_NullHandlerFatalAtStartup ==
    /\ aborted = "check_notnull" => CallsOf("listen", "server") = {}
    /\ \A k \in 1..Len(vended) : vended[k] # Null
    /\ \A k \in 1..Len(returned) : returned[k] # Null

\* The number of DestroyColumnFamilyHandle calls made on a handle.
HandleDestroyCount(h) ==
    Cardinality({k \in 1..Len(calls) :
                    calls[k] = Call("DestroyColumnFamilyHandle", "columnFamily", h)})

\* C17: stopRocksDb destroys no handle twice and no handle that is not in
\* columnFamilyMap_; when it deletes the engine, every handle of the map has
\* been destroyed exactly once before; and no handle is destroyed after the
\* engine was deleted: the delete is the last call of stopRocksDb.
C17_HandlesThenEngine ==
    /\ \A k \in CallsOf("DestroyColumnFamilyHandle", "columnFamily") :
          /\ \E name \in DOMAIN columnFamilyMap_ : columnFamilyMap_[name] = calls[k].id
          /\ HandleDestroyCount(calls[k].id) = 1
    /\ \A j \in CallsOf("delete", "rocksDb") :
          /\ \A name \in DOMAIN columnFamilyMap_ :
                \E k \in 1..(j - 1) :
                    calls[k] = Call("DestroyColumnFamilyHandle", "columnFamily",
                                    columnFamilyMap_[name])
          /\ \A k \in CallsOf("DestroyColumnFamilyHandle", "columnFamily") : k < j
    /\ CallsOf("delete", "rocksDb") # {} => (phase = "closed" /\ rocksDb_ = "deleted")
    /\ Done => CallsOf("delete", "rocksDb") # {}
    /\ Cardinality(CallsOf("delete", "rocksDb")) <= 1

\* C17 witness: an engine of three column families has been closed.
C17_Witness ==
    /\ Done
    /\ Len(columnFamilyMap_) = 3
    /\ rocksDb_ = "deleted"
    /\ Cardinality(CallsOf("DestroyColumnFamilyHandle", "columnFamily")) = 3

\* stopRocksDb has been entered at least once.
CloseBegun == phase \in {"closed", "closedAgain"}

\* C18: once stopRocksDb has been entered, no handle is used again whatever
\* public operation follows: a getColumnFamily made from then on does not
\* return a handle that has been destroyed; no handle is destroyed twice and
\* the engine is not deleted twice, also when stopRocksDb is called again;
\* and whenever stopRocksDb is entered no consumer loop is running or
\* stopping and every task queue that was started has been destroyed.
C18_NoHandleUseAfterClose ==
    /\ [](\A k \in CallsOf("DestroyColumnFamilyHandle", "columnFamily") :
              HandleDestroyCount(calls[k].id) = 1)
    /\ [](Cardinality(CallsOf("delete", "rocksDb")) <= 1)
    /\ [][ /\ \A name \in HandleNames :
                 (GetColumnFamily(name) /\ CloseBegun) =>
                     \/ aborted' # "no"
                     \/ HandleDestroyCount(ret'.result) = 0
           /\ (StopRocksDb \/ StopRocksDbAgain) =>
                 /\ \A i \in Consumers : kafkaConsumers_[i].loop \notin {"running", "stopping"}
                 /\ \A k \in CallsOf("start", "taskQueue") :
                       \E j \in CallsOf("destroy", "taskQueue") : calls[j].id = calls[k].id
         ]_vars

C20_StopServerIdempotent ==
    /\ [](/\ Cardinality(CallsOf("stop", "server")) <= Cardinality(CallsOf("listen", "server"))
          /\ Cardinality(CallsOf("join", "server")) <= Cardinality(CallsOf("listen", "server"))
          /\ \A k \in CallsOf("stop", "server") :
                k < Len(calls) /\ calls[k + 1] = Call("join", "server", calls[k].id))
    /\ [][ (StopServerUnlaunched \/ StopServerAgain) =>
              /\ server_ = Null /\ server_' = Null
              /\ calls' = calls
              /\ aborted' = aborted
         ]_vars

====
